---- MODULE Spec2Model ----
(***************************************************************************)
(* Model of the order classification and consolidation pipeline of         *)
(* Pedidos Manager: App.boton_cargar_archivos (Ventana_de_estado.py) loads *)
(* and sorts the CSV table, FiltroArgentina.procesar_archivo builds the    *)
(* generic projection and filtroAndreani.procesar_archivo the carrier      *)
(* projection of the same table object.                                    *)
(*                                                                         *)
(* A cell of a pandas table is a record [k, s, n]: k is the Python type of *)
(* the cell ("nan" a missing value, "str" a text, "int"/"float" a number), *)
(* s the text and n the number.  Texts are TLA+ strings; TLC evaluates     *)
(* Len, Head, Tail, SubSeq and \o on them.                                 *)
(***************************************************************************)
EXTENDS Integers, Sequences, FiniteSets, TLC

\* Largest number of lines of the multi-line input tables.
MaxLines == 2

\* The access tokens issued in one behaviour.
MaxTokens == 4

----------------------------------------------------------------------------
\* Cells and Python string operations

NaN == [k |-> "nan", s |-> "", n |-> 0]
Str(s) == [k |-> "str", s |-> s, n |-> 0]
IntCell(n) == [k |-> "int", s |-> "", n |-> n]
FloatCell(n) == [k |-> "float", s |-> "", n |-> n]

DigitChars == <<"0", "1", "2", "3", "4", "5", "6", "7", "8", "9">>

DigitSet == {DigitChars[i] : i \in 1..10}

RECURSIVE Digits(_)
Digits(n) ==
    IF n < 10 THEN DigitChars[n + 1]
    ELSE Digits(n \div 10) \o DigitChars[(n % 10) + 1]

\* str(value): "nan" for a missing value, "1425" for an int, "1425.0" for a
\* float of integral value.
PyStr(v) ==
    CASE v.k = "nan" -> "nan"
      [] v.k = "str" -> v.s
      [] v.k = "int" -> Digits(v.n)
      [] v.k = "float" -> Digits(v.n) \o ".0"

\* s.replace(c, "") for a one-character c.
RECURSIVE RemoveChar(_, _)
RemoveChar(s, c) ==
    IF s = "" THEN ""
    ELSE (IF Head(s) = c THEN "" ELSE Head(s)) \o RemoveChar(Tail(s), c)

\* s.replace(pat, "") for a literal pat of any length: every occurrence goes,
\* scanning from the left.
RECURSIVE RemoveAll(_, _)
RemoveAll(s, pat) ==
    IF Len(s) < Len(pat) THEN s
    ELSE IF SubSeq(s, 1, Len(pat)) = pat
         THEN RemoveAll(SubSeq(s, Len(pat) + 1, Len(s)), pat)
         ELSE Head(s) \o RemoveAll(Tail(s), pat)

\* s.startswith(p)
StartsWith(s, p) == Len(s) >= Len(p) /\ SubSeq(s, 1, Len(p)) = p

\* s.isnumeric(), on the characters of the model's texts.
IsNumeric(s) == s # "" /\ \A i \in 1..Len(s) : SubSeq(s, i, i) \in DigitSet

\* s.strip()
RECURSIVE LStrip(_)
LStrip(s) == IF s # "" /\ Head(s) = " " THEN LStrip(Tail(s)) ELSE s

RECURSIVE RStrip(_)
RStrip(s) ==
    IF s # "" /\ SubSeq(s, Len(s), Len(s)) = " "
    THEN RStrip(SubSeq(s, 1, Len(s) - 1))
    ELSE s

Strip(s) == RStrip(LStrip(s))

\* The number written by the decimal digits s.
DigitValue(c) == (CHOOSE i \in 1..10 : DigitChars[i] = c) - 1

RECURSIVE ToInt(_)
ToInt(s) ==
    IF s = "" THEN 0
    ELSE 10 * ToInt(SubSeq(s, 1, Len(s) - 1)) + DigitValue(SubSeq(s, Len(s), Len(s)))

\* pd.notna(v) and pd.to_datetime(v, errors='raise') succeeds, for the texts
\* of the model: a text that starts with a calendar date YYYY-MM-DD.
IsDateText(v) ==
    /\ v.k = "str"
    /\ Len(v.s) >= 10
    /\ IsNumeric(SubSeq(v.s, 1, 4))
    /\ SubSeq(v.s, 5, 5) = "-"
    /\ IsNumeric(SubSeq(v.s, 6, 7))
    /\ SubSeq(v.s, 8, 8) = "-"
    /\ IsNumeric(SubSeq(v.s, 9, 10))
    /\ ToInt(SubSeq(v.s, 6, 7)) \in 1..12
    /\ ToInt(SubSeq(v.s, 9, 10)) \in 1..31

to_datetime(v) ==
    [ y |-> ToInt(SubSeq(v.s, 1, 4)), m |-> ToInt(SubSeq(v.s, 6, 7)),
      d |-> ToInt(SubSeq(v.s, 9, 10)) ]

\* datetime.now(), a day that no input line carries.
NowDate == [y |-> 2026, m |-> 11, d |-> 4]

Pad2(n) == IF n < 10 THEN "0" \o Digits(n) ELSE Digits(n)

\* t.strftime('%d-%m-%Y')
strftime(t) == Pad2(t.d) \o "-" \o Pad2(t.m) \o "-" \o Digits(t.y)

\* Code points of the characters that occur in the sort keys.
CharCode(c) ==
    CASE c = " " -> 32 [] c = "#" -> 35 [] c = "0" -> 48 [] c = "1" -> 49
      [] c = "2" -> 50 [] c = "3" -> 51 [] c = "A" -> 65 [] c = "B" -> 66
      [] OTHER -> 127

\* s < t on Python strings.
RECURSIVE LexLess(_, _)
LexLess(s, t) ==
    IF t = "" THEN FALSE
    ELSE IF s = "" THEN TRUE
    ELSE IF Head(s) = Head(t) THEN LexLess(Tail(s), Tail(t))
    ELSE CharCode(Head(s)) < CharCode(Head(t))

----------------------------------------------------------------------------
\* Literals of the source

PAID == Str("paid")
EXPIRED == Str("expired")
REFUNDED == Str("refunded")
PENDING == Str("pending")

PRIORITY == Str("Envío Prioritario + Garantía extendida")

TDF == Str("Tierra del Fuego")

CabaPrefixes ==
    { "C14", "C11", "C10", "C12", "C15", "C13",
      "'15", "'14", "'13", "'12", "'11", "'10",
      "15", "14", "13", "12", "11", "10" }

\* Mutation of ZipIsCaba: the postal code equals a prefix instead of starting
\* with it.
ZipIsCaba_exact(zip) == PyStr(zip) \in CabaPrefixes

\* str(row['Shipping Zip']).startswith((...))
ZipIsCaba(zip) == \E p \in CabaPrefixes : StartsWith(PyStr(zip), p)

\* The columns selected for the generic projection.
GenericColumns ==
    { "Created at", "Name", "Shipping Name", "Lineitem quantity",
      "Lineitem name", "Total", "Shipping Province Name", "Shipping Street",
      "Shipping Zip", "Shipping Phone", "Email", "Lineitem sku" }

\* The columns selected for the carrier projection.
CarrierColumns ==
    { "Name", "Shipping Name", "Shipping Company", "Email", "Shipping Phone",
      "Shipping Street", "Shipping Address2", "Shipping City", "Shipping Zip",
      "Shipping Province Name", "Notes" }

----------------------------------------------------------------------------
\* Input tables

\* The columns whose absence the model follows.
TrackedColumns ==
    { "Name", "Shipping Zip", "Shipping Company", "Financial Status",
      "Shipping Method", "Notes" }

FinValues == {PAID, EXPIRED, REFUNDED, PENDING, Str("voided"), NaN}

IdValues ==
    { Str("DNI 12345678"), Str("12A34"), Str("12.345.678"), Str("12 345 678"),
      Str(" "), IntCell(12345678), FloatCell(12345678), NaN }

ZipValues ==
    { Str("C1425"), Str("'1425"), Str("C1625"), IntCell(1425), FloatCell(1050),
      IntCell(5000), NaN }

MethodValues == {PRIORITY, Str("Standard"), NaN}

NotesValues == {NaN, Str("  "), Str(" llamar antes "), FloatCell(123)}

ProvValues == {TDF, Str("Buenos Aires"), NaN}

PhoneValues == {NaN, FloatCell(1155), Str("11.0555"), Str("nan 1155"), Str("1155")}

DateValues == {NaN, Str("sin fecha"), Str("2024-03-05 10:00"), Str("2023-12-25")}

\* One line with every combination of the fields the classifier reads.
RichLines ==
    [ idx : {1}, Name : {Str("#1001")}, ShippingName : {Str("A"), NaN},
      FinancialStatus : FinValues, ShippingCompany : IdValues,
      ShippingZip : ZipValues, ShippingMethod : MethodValues,
      Notes : NotesValues, Province : ProvValues,
      Phone : {Str("1155")}, CreatedAt : {Str("2024-03-05 10:00")} ]

\* Lines of multi-line tables: the order id, the sort key and the fields that
\* make the statuses of the lines of one order differ.
LeanLines(i) ==
    [ idx : {i}, Name : {NaN, Str("#1001"), Str("#1002")},
      ShippingName : {Str("A"), Str("B")},
      FinancialStatus : {PAID, PENDING, NaN},
      ShippingCompany : {IntCell(12345678)},
      ShippingZip : {Str("C1420")},
      ShippingMethod : {Str("Standard")},
      Notes : {NaN}, Province : {Str("Buenos Aires")},
      Phone : {Str("1155")}, CreatedAt : {Str("2024-03-05 10:00")} ]

LeanTables ==
    UNION { { t \in [1..n -> UNION {LeanLines(i) : i \in 1..n}] :
                \A i \in 1..n : t[i].idx = i } : n \in 0..MaxLines }

\* Lines of the tables that vary the creation date: paid lines of two orders.
DateLines(i) ==
    [ idx : {i}, Name : {Str("#1001"), Str("#1002")},
      ShippingName : {Str("A")}, FinancialStatus : {PAID},
      ShippingCompany : {IntCell(12345678)}, ShippingZip : {Str("5000")},
      ShippingMethod : {Str("Standard")}, Notes : {NaN},
      Province : {Str("Buenos Aires")}, Phone : {Str("1155")},
      CreatedAt : DateValues ]

DateTables ==
    UNION { { t \in [1..n -> UNION {DateLines(i) : i \in 1..n}] :
                \A i \in 1..n : t[i].idx = i } : n \in 1..MaxLines }

\* One line with every kind of phone cell.
PhoneLines ==
    [ idx : {1}, Name : {Str("#1001")}, ShippingName : {Str("A")},
      FinancialStatus : {PAID}, ShippingCompany : {IntCell(12345678)},
      ShippingZip : {Str("5000")}, ShippingMethod : {Str("Standard")},
      Notes : {NaN}, Province : {Str("Buenos Aires")}, Phone : PhoneValues,
      CreatedAt : {Str("2024-03-05 10:00")} ]

\* A table that lacks a column holds no value in it.
Blank(row, missing) ==
    [ row EXCEPT
        !.Name = IF "Name" \in missing THEN NaN ELSE @,
        !.ShippingZip = IF "Shipping Zip" \in missing THEN NaN ELSE @,
        !.ShippingCompany = IF "Shipping Company" \in missing THEN NaN ELSE @,
        !.FinancialStatus = IF "Financial Status" \in missing THEN NaN ELSE @,
        !.ShippingMethod = IF "Shipping Method" \in missing THEN NaN ELSE @,
        !.Notes = IF "Notes" \in missing THEN NaN ELSE @ ]

MissingChoices == {{}} \cup {{c} : c \in TrackedColumns}

----------------------------------------------------------------------------
\* State

VARIABLES
    pc,        \* the step of the pipeline that runs next; "error" after a raise
    err,       \* the exception that ended the pipeline, "none" otherwise
    failedAt,  \* the step that raised, "" otherwise
    missing,   \* the tracked columns absent from the input files
    src,       \* df_concatenado, the table both projections read (and write)
    orig,      \* history: df_concatenado as the load stage produced it
    gen,       \* columnas_a_copiar / ArchivoFinal of FiltroArgentina
    genPre,    \* history: gen immediately before the groupby
    car,       \* columnas_a_copiar2 / ArchivoFinal2 of filtroAndreani
    carPre,    \* history: car immediately before the groupby
    stats,     \* the counts handed to actualizar_estadisticas, and its total
    fecha,     \* Fecha returned by FiltroArgentina ("" before it is computed)
    fecha2,    \* fecha_del_archivo of filtroAndreani ("" before)
    excel,     \* what the local workbook writer was handed
    upload,    \* what the remote spreadsheet was sent
    regen,     \* the result of a second call of FiltroArgentina on src
    cols,      \* the column names of the generic output, in order
    progress,  \* the percentage shown by the progress bar
    exito,     \* the success confirmation has been shown
    tokenFile, \* the credentials pickled in token.pickle, or NoToken
    gc,        \* the credentials behind the gspread client of the window
    ultima,    \* the outcome of the last call of obtener_credenciales
    apc,       \* "start" before the initial connection, then "idle"
    aerr,      \* the handler whose error message was shown last, or "none"
    emitidos   \* the number of access tokens issued so far

authVars == <<tokenFile, gc, ultima, apc, aerr, emitidos>>

pipeVars == <<pc, err, failedAt, missing, src, orig, gen, genPre, car, carPre, stats, fecha, fecha2, excel, upload, regen, cols, exito>>

vars == <<pc, err, failedAt, missing, src, orig, gen, genPre, car, carPre, stats, fecha, fecha2, excel, upload, regen, cols, progress, exito, tokenFile, gc, ultima, apc, aerr, emitidos>>

\* No credentials: the file does not exist, the client was never created.
NoToken == [cuenta |-> "", n |-> 0, estado |-> "none", refresh |-> FALSE]

\* Credentials of an account: the n-th access token issued, valid or
\* expired, with or without a refresh token.
Token(cuenta, n, estado, refresh) ==
    [cuenta |-> cuenta, n |-> n, estado |-> estado, refresh |-> refresh]

NoCall == [ok |-> FALSE, rama |-> "none", creds |-> NoToken]

NoExcel == [handed |-> FALSE, written |-> FALSE, fecha |-> "", argentina |-> <<>>, andreani |-> <<>>]

NoUpload == [sent |-> FALSE, fecha |-> "", hoja1 |-> <<>>, andreani |-> <<>>]

NoStats ==
    [ reported |-> FALSE, caba |-> 0, falta_pagar |-> 0, vencido |-> 0,
      reembolsado |-> 0, notas |-> 0, sin_clasificar |-> 0, revisar_dni |-> 0,
      total |-> 0, panel |-> <<>> ]

Init ==
    /\ pc = "load"
    /\ err = "none"
    /\ failedAt = ""
    /\ \/ /\ missing = {}
          /\ src \in [1..1 -> RichLines]
       \/ \E m \in MissingChoices, t \in LeanTables :
            /\ missing = m
            /\ src = [i \in 1..Len(t) |-> Blank(t[i], m)]
       \/ /\ missing = {}
          /\ src \in DateTables
       \/ /\ missing = {}
          /\ src \in [1..1 -> PhoneLines]
    /\ orig = <<>>
    /\ gen = <<>>
    /\ genPre = <<>>
    /\ car = <<>>
    /\ carPre = <<>>
    /\ stats = NoStats
    /\ fecha = ""
    /\ fecha2 = ""
    /\ excel = NoExcel
    /\ upload = NoUpload
    /\ regen = <<>>
    /\ cols = <<>>
    /\ progress = 0
    /\ exito = FALSE
    /\ tokenFile = Token("a", 0, "valid", TRUE)
    /\ gc = tokenFile
    /\ ultima = NoCall
    /\ apc = "idle"
    /\ aerr = "none"
    /\ emitidos = 0

\* An exception leaves procesar_archivo and is caught by the handler of
\* boton_cargar_archivos: no later step runs, and the handler sets the
\* progress to 0.
Raise(exc) ==
    /\ pc' = "error"
    /\ err' = exc
    /\ failedAt' = pc
    /\ progress' = 0
    /\ UNCHANGED exito

\* The last actualizar_progreso call before the pipeline stands at step:
\* 30 when the load begins, 50 before the generic projection, 65 before the
\* carrier projection, 75 before the workbook, 100 at the end (the 80 set
\* before the upload is replaced by 100 or 0 within the same step).
ProgressAt(step) ==
    CASE step = "gen_copy" -> 30
      [] step \in {"car_norm", "car_p1", "car_p2", "car_p3", "car_p4", "car_const", "car_group", "car_phone", "processed"} -> 65
      [] step = "upload" -> 75
      [] step = "done" -> 100
      [] OTHER -> 50

\* The success message box is shown at the end of the try block.
Goto(step) ==
    /\ pc' = step
    /\ progress' = ProgressAt(step)
    /\ exito' = (step = "done")
    /\ UNCHANGED <<err, failedAt>>

----------------------------------------------------------------------------
\* Stage 1: load, concatenate and sort

\* a comes before b under by=['Name', 'Shipping Name'],
\* ascending=[True, False], missing keys last.
Before(a, b) ==
    IF a.Name # b.Name
    THEN a.Name # NaN /\ (b.Name = NaN \/ LexLess(a.Name.s, b.Name.s))
    ELSE /\ a.ShippingName # b.ShippingName
         /\ a.ShippingName # NaN
         /\ (b.ShippingName = NaN \/ LexLess(b.ShippingName.s, a.ShippingName.s))

\* Stable insertion of x into the sorted table t.
SortInsert(t, x) ==
    LET k == Cardinality({i \in 1..Len(t) : ~Before(x, t[i])})
    IN SubSeq(t, 1, k) \o <<x>> \o SubSeq(t, k + 1, Len(t))

RECURSIVE sort_values(_)
sort_values(t) ==
    IF t = <<>> THEN <<>>
    ELSE SortInsert(sort_values(SubSeq(t, 1, Len(t) - 1)), t[Len(t)])

CargarCSV ==
    /\ pc = "load"
    /\ IF "Name" \in missing
       THEN /\ Raise("KeyError")
            /\ UNCHANGED <<src, orig>>
       ELSE /\ src' = sort_values(src)
            /\ orig' = src'
            /\ Goto("gen_copy")
    /\ UNCHANGED <<authVars, cols, excel, upload, regen, fecha, fecha2, missing, gen, genPre, car, carPre, stats>>

----------------------------------------------------------------------------
\* The four classification passes (the same code in both projections)

\* Mutation of NormalizeId: only the first "." is removed.
NormalizeId_firstDot(v) ==
    LET s == RemoveChar(PyStr(v), " ")
        dots == {i \in 1..Len(s) : SubSeq(s, i, i) = "."}
        k == CHOOSE i \in dots : \A j \in dots : i <= j
    IN IF dots = {} THEN Str(s)
       ELSE Str(SubSeq(s, 1, k - 1) \o SubSeq(s, k + 1, Len(s)))

\* astype(str).str.replace(".", "") then .str.replace(" ", "")
NormalizeId(v) == Str(RemoveChar(RemoveChar(PyStr(v), "."), " "))

\* BUCLE 1: financial status and id check
Pass1Row(row, status) ==
    IF row.ShippingCompany.k = "str" /\ row.FinancialStatus = PAID
    THEN IF StartsWith(row.ShippingCompany.s, "DNI ")
         THEN status
         ELSE IF ~IsNumeric(row.ShippingCompany.s)
              THEN "REVISAR DNI"
              ELSE status
    ELSE IF row.FinancialStatus = EXPIRED THEN "VENCIDO"
    ELSE IF row.FinancialStatus = REFUNDED THEN "REEMBOLSADO"
    ELSE IF row.FinancialStatus = PENDING THEN "FALTA PAGAR"
    ELSE status

Pass1Raises(row, miss) ==
    IF "Financial Status" \in miss THEN "KeyError" ELSE "none"

\* Mutation of Pass2Row: a line that matches neither rule is reset to ''.
Pass2Row_reset(row, status) ==
    IF row.FinancialStatus = PAID /\ ZipIsCaba(row.ShippingZip)
    THEN "CABA"
    ELSE IF row.FinancialStatus = PAID /\ row.ShippingMethod = PRIORITY
         THEN "PRIORITARIO"
         ELSE ""

\* BUCLE 2: CABA by postal code, else priority shipping
Pass2Row(row, status) ==
    IF row.FinancialStatus = PAID /\ ZipIsCaba(row.ShippingZip)
    THEN "CABA"
    ELSE IF row.FinancialStatus = PAID /\ row.ShippingMethod = PRIORITY
         THEN "PRIORITARIO"
         ELSE status

Pass2Raises(row, miss) ==
    IF "Financial Status" \in miss THEN "KeyError"
    ELSE IF /\ ~(row.FinancialStatus = PAID /\ ZipIsCaba(row.ShippingZip))
            /\ row.FinancialStatus = PAID
            /\ "Shipping Method" \in miss
         THEN "KeyError"
         ELSE "none"

\* Mutation of Pass3Row: the financial status is not looked at.
Pass3Row_anyStatus(row, status) ==
    IF row.ShippingMethod = PRIORITY /\ ZipIsCaba(row.ShippingZip)
    THEN "CABA PRIORITARIO"
    ELSE status

\* BUCLE 3: CABA and priority shipping
Pass3Row(row, status) ==
    IF /\ row.FinancialStatus = PAID
       /\ row.ShippingMethod = PRIORITY
       /\ ZipIsCaba(row.ShippingZip)
    THEN "CABA PRIORITARIO"
    ELSE status

Pass3Raises(row, miss) ==
    IF "Financial Status" \in miss THEN "KeyError"
    ELSE IF row.FinancialStatus = PAID /\ "Shipping Method" \in miss
         THEN "KeyError"
         ELSE "none"

\* pd.notnull(note) and note.strip(), for a note that is missing or a text
NoteIsPresent(note) == note.k # "nan" /\ Strip(note.s) # ""

\* Mutation of Pass4Row: the notes rule applies whatever the financial status.
Pass4Row_anyStatus(row, status) ==
    IF NoteIsPresent(row.Notes)
    THEN "REVISAR NOTAS EN SHOPIFY"
    ELSE IF row.FinancialStatus = PAID /\ row.Province = TDF
         THEN "TIERRA DEL FUEGO"
         ELSE status

\* Mutation of Pass4Row: Tierra del Fuego is tested before the notes.
Pass4Row_provinceFirst(row, status) ==
    IF row.FinancialStatus = PAID /\ row.Province = TDF
    THEN "TIERRA DEL FUEGO"
    ELSE IF row.FinancialStatus = PAID /\ NoteIsPresent(row.Notes)
         THEN "REVISAR NOTAS EN SHOPIFY"
         ELSE status

\* BUCLE 4: notes, else Tierra del Fuego
Pass4Row(row, status) ==
    IF row.FinancialStatus = PAID /\ NoteIsPresent(row.Notes)
    THEN "REVISAR NOTAS EN SHOPIFY"
    ELSE IF row.FinancialStatus = PAID /\ row.Province = TDF
         THEN "TIERRA DEL FUEGO"
         ELSE status

\* note.strip() of a number raises AttributeError.
Pass4Raises(row, miss) ==
    IF "Notes" \in miss THEN "KeyError"
    ELSE IF "Financial Status" \in miss THEN "KeyError"
    ELSE IF row.FinancialStatus = PAID /\ row.Notes.k \in {"int", "float"}
         THEN "AttributeError"
         ELSE "none"

\* The body of loop p (1 to 4) on one row.
PassRow(p, row, status) ==
    CASE p = 1 -> Pass1Row(row, status)
      [] p = 2 -> Pass2Row(row, status)
      [] p = 3 -> Pass3Row(row, status)
      [] p = 4 -> Pass4Row(row, status)

PassRaises(p, row, miss) ==
    CASE p = 1 -> Pass1Raises(row, miss)
      [] p = 2 -> Pass2Raises(row, miss)
      [] p = 3 -> Pass3Raises(row, miss)
      [] p = 4 -> Pass4Raises(row, miss)

\* for index, row in table.iterrows(): the first row on which the body of
\* loop p raises (0 when none does).
FirstRaise(p, table, miss) ==
    IF \E i \in 1..Len(table) : PassRaises(p, table[i], miss) # "none"
    THEN CHOOSE i \in 1..Len(table) :
            /\ PassRaises(p, table[i], miss) # "none"
            /\ \A j \in 1..(i - 1) : PassRaises(p, table[j], miss) = "none"
    ELSE 0

\* Mutation of RunPass: the body of the loop starts from the status of the
\* row above.
RunPass_carry(p, table, out, miss) ==
    [ i \in 1..Len(out) |->
        [out[i] EXCEPT !.Status =
            PassRow(p, table[i], IF i > 1 THEN out[i - 1].Status ELSE out[i].Status)] ]

\* The Status column after loop p: the rows before the raising one are
\* written.
RunPass(p, table, out, miss) ==
    LET r == FirstRaise(p, table, miss)
    IN [ i \in 1..Len(out) |->
           IF r = 0 \/ i < r
           THEN [out[i] EXCEPT !.Status = PassRow(p, table[i], out[i].Status)]
           ELSE out[i] ]

\* The control part of loop p: raise or go on.
PassControl(p, table, miss, next) ==
    LET r == FirstRaise(p, table, miss)
    IN IF r = 0 THEN Goto(next) ELSE Raise(PassRaises(p, table[r], miss))

----------------------------------------------------------------------------
\* Consolidation

\* Mutation of assign_status: the status of the last line of the group.
assign_status_last(group) ==
    [i \in 1..Len(group) |-> [group[i] EXCEPT !.Status = group[Len(group)].Status]]

\* Mutation of assign_status: the fields of the first line are copied too.
assign_status_wholeRow(group) ==
    [i \in 1..Len(group) |-> [group[1] EXCEPT !.idx = group[i].idx]]

\* group['Status'] = group['Status'].iloc[0]
assign_status(group) ==
    [i \in 1..Len(group) |-> [group[i] EXCEPT !.Status = group[1].Status]]

\* The groups in ascending key order, each with its rows in table order.
RECURSIVE ConcatGroups(_, _)
ConcatGroups(t, keys) ==
    IF keys = {} THEN <<>>
    ELSE LET k == CHOOSE x \in keys :
                    \A o \in keys \ {x} : LexLess(x.s, o.s)
         IN assign_status(SelectSeq(t, LAMBDA r : r.Name = k))
              \o ConcatGroups(t, keys \ {k})

\* t.groupby('Name').apply(assign_status).reset_index(drop=True): rows whose
\* key is missing belong to no group.
GroupByName(t) == ConcatGroups(t, {t[i].Name : i \in 1..Len(t)} \ {NaN})

----------------------------------------------------------------------------
\* Stage 2: FiltroArgentina.procesar_archivo

\* pd.to_datetime(errors='coerce') then .dt.strftime('%d/%m/%Y'): a cell that
\* is missing or does not parse becomes a missing value.
FormatCreatedAt(v) ==
    IF IsDateText(v)
    THEN LET t == to_datetime(v)
         IN Str(Pad2(t.d) \o "/" \o Pad2(t.m) \o "/" \o Digits(t.y))
    ELSE NaN

\* The columns copied into the generic projection, in the order of the
\* selection.
columnas_a_copiar ==
    << "Created at", "Name", "Shipping Name", "Lineitem quantity",
       "Lineitem name", "Total", "Shipping Province Name", "Shipping Street",
       "Shipping Zip", "Shipping Phone", "Email", "Lineitem sku" >>

\* DataFrame.insert(loc, name, ...): name becomes the column with the
\* 0-based index loc, the columns from loc on move one place to the right.
InsertColumn(cs, loc, name) ==
    SubSeq(cs, 1, loc) \o <<name>> \o SubSeq(cs, loc + 1, Len(cs))

\* The four inserts at the positions 9, 10, 11 and 12.
InsertedColumns ==
    InsertColumn(InsertColumn(InsertColumn(InsertColumn(columnas_a_copiar, 9, "Status"), 10, "NC2"), 11, "NC3"), 12, "NC4")

\* The columns copied into the generic projection, plus the inserted Status.
\* idx is the index label of the row, kept to name the line after the
\* groupby has reset the index.
GenericRow(row) ==
    [ idx |-> row.idx, Name |-> row.Name, ShippingName |-> row.ShippingName,
      ShippingZip |-> row.ShippingZip, Province |-> row.Province,
      Phone |-> row.Phone, CreatedAt |-> FormatCreatedAt(row.CreatedAt),
      Status |-> "" ]

\* Mutation of PrimeraFecha: the last parseable line decides.
PrimeraFecha_last(t) ==
    LET ok == {i \in 1..Len(t) : IsDateText(t[i].CreatedAt)}
    IN IF ok = {} THEN strftime(NowDate)
       ELSE strftime(to_datetime(t[CHOOSE i \in ok : \A j \in ok : j <= i].CreatedAt))

\* The date loop: the first row whose 'Created at' is present and parses
\* gives the date, a row that fails to parse is skipped by the bare except,
\* and datetime.now() is the fallback.
PrimeraFecha(t) ==
    LET ok == {i \in 1..Len(t) : IsDateText(t[i].CreatedAt)}
    IN IF ok = {} THEN strftime(NowDate)
       ELSE strftime(to_datetime(t[CHOOSE i \in ok : \A j \in ok : i <= j].CreatedAt))

GenCopy ==
    /\ pc = "gen_copy"
    /\ IF GenericColumns \cap missing # {}
       THEN /\ Raise("KeyError")
            /\ UNCHANGED <<gen, fecha, cols>>
       ELSE /\ gen' = [i \in 1..Len(src) |-> GenericRow(src[i])]
            /\ fecha' = PrimeraFecha(src)
            /\ cols' = InsertedColumns
            /\ Goto("gen_norm")
    /\ UNCHANGED <<authVars, excel, upload, regen, fecha2, missing, src, orig, genPre, car, carPre, stats>>

\* Mutation of GenNormalize: the spaces of the id stay.
GenNormalize_dotsOnly ==
    /\ pc = "gen_norm"
    /\ src' = [i \in 1..Len(src) |->
                 [src[i] EXCEPT
                    !.ShippingCompany = Str(RemoveChar(PyStr(@), "."))]]
    /\ Goto("gen_p1")
    /\ UNCHANGED <<authVars, cols, excel, upload, regen, fecha, fecha2, missing, orig, gen, genPre, car, carPre, stats>>

GenNormalize ==
    /\ pc = "gen_norm"
    /\ IF "Shipping Company" \in missing
       THEN /\ Raise("KeyError")
            /\ UNCHANGED src
       ELSE /\ src' = [i \in 1..Len(src) |->
                        [src[i] EXCEPT
                           !.ShippingCompany = NormalizeId(@)]]
            /\ Goto("gen_p1")
    /\ UNCHANGED <<authVars, cols, excel, upload, regen, fecha, fecha2, missing, orig, gen, genPre, car, carPre, stats>>

GenPass1 ==
    /\ pc = "gen_p1"
    /\ gen' = RunPass(1, src, gen, missing)
    /\ PassControl(1, src, missing, "gen_p2")
    /\ UNCHANGED <<authVars, cols, excel, upload, regen, fecha, fecha2, missing, src, orig, genPre, car, carPre, stats>>

GenPass2 ==
    /\ pc = "gen_p2"
    /\ gen' = RunPass(2, src, gen, missing)
    /\ PassControl(2, src, missing, "gen_p3")
    /\ UNCHANGED <<authVars, cols, excel, upload, regen, fecha, fecha2, missing, src, orig, genPre, car, carPre, stats>>

GenPass3 ==
    /\ pc = "gen_p3"
    /\ gen' = RunPass(3, src, gen, missing)
    /\ PassControl(3, src, missing, "gen_p4")
    /\ UNCHANGED <<authVars, cols, excel, upload, regen, fecha, fecha2, missing, src, orig, genPre, car, carPre, stats>>

GenPass4 ==
    /\ pc = "gen_p4"
    /\ gen' = RunPass(4, src, gen, missing)
    /\ PassControl(4, src, missing, "gen_group")
    /\ UNCHANGED <<authVars, cols, excel, upload, regen, fecha, fecha2, missing, src, orig, genPre, car, carPre, stats>>

GenGroup ==
    /\ pc = "gen_group"
    /\ genPre' = gen
    /\ gen' = GroupByName(gen)
    /\ Goto("gen_phone")
    /\ UNCHANGED <<authVars, cols, excel, upload, regen, fecha, fecha2, missing, src, orig, car, carPre, stats>>

\* astype(str).str.replace(".0", ""), the pattern taken literally
PhoneCleanup(v) == Str(RemoveAll(PyStr(v), ".0"))

PhoneColumn(t) == [i \in 1..Len(t) |-> [t[i] EXCEPT !.Phone = PhoneCleanup(@)]]

GenPhone ==
    /\ pc = "gen_phone"
    /\ gen' = PhoneColumn(gen)
    /\ Goto("gen_stats")
    /\ UNCHANGED <<authVars, cols, excel, upload, regen, fecha, fecha2, missing, src, orig, genPre, car, carPre, stats>>

\* Mutation of CountOrders: the lines are counted, not the distinct orders.
CountOrders_lines(t, status) ==
    Cardinality({j \in 1..Len(t) : t[j].Status = status})

\* len(df[df['Status'] == status]['Name'].unique())
CountOrders(t, status) ==
    Cardinality({t[i].Name : i \in {j \in 1..Len(t) : t[j].Status = status}})

\* App.actualizar_estadisticas: the total is the sum of its seven arguments.
actualizar_estadisticas(caba, falta_pagar, vencido, reembolsado, notas, sin_clasificar, revisar_dni) ==
    [ reported |-> TRUE, caba |-> caba, falta_pagar |-> falta_pagar,
      vencido |-> vencido, reembolsado |-> reembolsado, notas |-> notas,
      sin_clasificar |-> sin_clasificar, revisar_dni |-> revisar_dni,
      total |-> caba + falta_pagar + vencido + reembolsado + notas
                  + sin_clasificar + revisar_dni,
      panel |-> <<caba, falta_pagar, vencido, reembolsado, notas, sin_clasificar>> ]

GenStats ==
    /\ pc = "gen_stats"
    /\ stats' = actualizar_estadisticas(
                    CountOrders(gen, "CABA"),
                    CountOrders(gen, "FALTA PAGAR"),
                    CountOrders(gen, "VENCIDO"),
                    CountOrders(gen, "REEMBOLSADO"),
                    CountOrders(gen, "REVISAR NOTAS EN SHOPIFY"),
                    CountOrders(gen, ""),
                    CountOrders(gen, "REVISAR DNI"))
    /\ Goto("car_copy")
    /\ UNCHANGED <<authVars, cols, excel, upload, regen, fecha, fecha2, missing, src, orig, gen, genPre, car, carPre>>

\* The four loops one after the other, none of them raising.
Classify(table, out, miss) ==
    RunPass(4, table, RunPass(3, table, RunPass(2, table, RunPass(1, table, out, miss), miss), miss), miss)

\* FiltroArgentina.procesar_archivo called a second time on the table it has
\* already processed. The first call returned, so no column it reads is
\* missing and no row makes a loop raise.
GenRerun ==
    /\ pc = "car_copy"
    /\ LET t == [i \in 1..Len(src) |->
                   [src[i] EXCEPT !.ShippingCompany = NormalizeId(@)]]
           out == [i \in 1..Len(t) |-> GenericRow(t[i])]
       IN /\ src' = t
          /\ regen' = PhoneColumn(GroupByName(Classify(t, out, missing)))
          /\ fecha' = PrimeraFecha(src)
    /\ Goto("rerun")
    /\ UNCHANGED <<authVars, cols, excel, upload, fecha2, missing, orig, gen, genPre, car, carPre, stats>>

----------------------------------------------------------------------------
\* Stage 3: filtroAndreani.procesar_archivo, on the same table object

CarrierRow(row) ==
    [ idx |-> row.idx, Name |-> row.Name, ShippingName |-> row.ShippingName,
      ShippingCompany |-> row.ShippingCompany,
      ShippingZip |-> row.ShippingZip, Province |-> row.Province,
      Notes |-> row.Notes, Phone |-> row.Phone, Status |-> "",
      Peso |-> "", Alto |-> "", Ancho |-> "", Profun |-> "", ValDecl |-> "",
      NC |-> "", CodNum |-> "" ]

CarCopy ==
    /\ pc = "car_copy"
    /\ IF CarrierColumns \cap missing # {}
       THEN /\ Raise("KeyError")
            /\ UNCHANGED car
       ELSE /\ car' = [i \in 1..Len(src) |-> CarrierRow(src[i])]
            /\ Goto("car_norm")
    /\ fecha2' = PrimeraFecha(src)
    /\ UNCHANGED <<authVars, cols, excel, upload, regen, fecha, missing, src, orig, gen, genPre, carPre, stats>>

\* fillna("")
FillNa(v) == IF v = NaN THEN Str("") ELSE v

CarNormalize ==
    /\ pc = "car_norm"
    /\ src' = [i \in 1..Len(src) |->
                 [src[i] EXCEPT
                    !.ShippingCompany = NormalizeId(@),
                    !.ShippingName = FillNa(@),
                    !.Phone = Str(RemoveAll(PyStr(@), "nan"))]]
    /\ Goto("car_p1")
    /\ UNCHANGED <<authVars, cols, excel, upload, regen, fecha, fecha2, missing, orig, gen, genPre, car, carPre, stats>>

CarPass1 ==
    /\ pc = "car_p1"
    /\ car' = RunPass(1, src, car, missing)
    /\ PassControl(1, src, missing, "car_p2")
    /\ UNCHANGED <<authVars, cols, excel, upload, regen, fecha, fecha2, missing, src, orig, gen, genPre, carPre, stats>>

CarPass2 ==
    /\ pc = "car_p2"
    /\ car' = RunPass(2, src, car, missing)
    /\ PassControl(2, src, missing, "car_p3")
    /\ UNCHANGED <<authVars, cols, excel, upload, regen, fecha, fecha2, missing, src, orig, gen, genPre, carPre, stats>>

CarPass3 ==
    /\ pc = "car_p3"
    /\ car' = RunPass(3, src, car, missing)
    /\ PassControl(3, src, missing, "car_p4")
    /\ UNCHANGED <<authVars, cols, excel, upload, regen, fecha, fecha2, missing, src, orig, gen, genPre, carPre, stats>>

CarPass4 ==
    /\ pc = "car_p4"
    /\ car' = RunPass(4, src, car, missing)
    /\ PassControl(4, src, missing, "car_const")
    /\ UNCHANGED <<authVars, cols, excel, upload, regen, fecha, fecha2, missing, src, orig, gen, genPre, carPre, stats>>

\* Mutation of CarrierConstants: the declared value is left as inserted.
CarrierConstants_noValDecl(row) ==
    [row EXCEPT
       !.Peso = "100", !.Alto = "10", !.Ancho = "15", !.Profun = "10",
       !.NC = ".", !.CodNum = "54"]

\* The body of BUCLE 5 for one row.
CarrierConstants(row) ==
    [row EXCEPT
       !.Peso = "100", !.Alto = "10", !.Ancho = "15", !.Profun = "10",
       !.ValDecl = "4500", !.NC = ".", !.CodNum = "54"]

\* BUCLE 5: the fixed values of the carrier
CarConstants ==
    /\ pc = "car_const"
    /\ car' = [i \in 1..Len(car) |-> CarrierConstants(car[i])]
    /\ Goto("car_group")
    /\ UNCHANGED <<authVars, cols, excel, upload, regen, fecha, fecha2, missing, src, orig, gen, genPre, carPre, stats>>

CarGroup ==
    /\ pc = "car_group"
    /\ carPre' = car
    /\ car' = GroupByName(car)
    /\ Goto("car_phone")
    /\ UNCHANGED <<authVars, cols, excel, upload, regen, fecha, fecha2, missing, src, orig, gen, genPre, stats>>

\* The carrier projection computed from table t alone, for a table whose
\* loops do not raise.
CarrierAlone(t, miss) ==
    LET n == [i \in 1..Len(t) |->
                [t[i] EXCEPT !.ShippingCompany = NormalizeId(@),
                             !.ShippingName = FillNa(@)]]
        out == [i \in 1..Len(t) |-> CarrierRow(t[i])]
        st == RunPass(4, n, RunPass(3, n, RunPass(2, n, RunPass(1, n, out, miss), miss), miss), miss)
    IN PhoneColumn(GroupByName([i \in 1..Len(st) |-> CarrierConstants(st[i])]))

CarPhone ==
    /\ pc = "car_phone"
    /\ car' = PhoneColumn(car)
    /\ Goto("processed")
    /\ UNCHANGED <<authVars, cols, excel, upload, regen, fecha, fecha2, missing, src, orig, gen, genPre, carPre, stats>>

----------------------------------------------------------------------------
\* Stage 4: excel_concat.procesar_archivos_unificado

\* Both tables are handed to the workbook writer as they are; an exception
\* of the writer is printed and swallowed.
ExcelWrite ==
    /\ pc = "processed"
    /\ \E ok \in BOOLEAN :
         excel' = [handed |-> TRUE, written |-> ok, fecha |-> fecha,
                   argentina |-> gen, andreani |-> car]
    /\ Goto("upload")
    /\ UNCHANGED <<authVars, cols, upload, regen, fecha, fecha2, missing, src, orig, gen, genPre, car, carPre, stats>>

----------------------------------------------------------------------------
\* Stage 5: Cargar_Drive.cargar_excel

\* A cell after astype(str) and the replacement of the cells equal to "nan".
SinNan(v) == IF PyStr(v) = "nan" THEN "" ELSE PyStr(v)

\* The replacement of the cells equal to "n" (second sheet only).
SinN(s) == IF s = "n" THEN "" ELSE s

Hoja1Row(r) ==
    [ idx |-> r.idx, Name |-> SinNan(r.Name),
      ShippingName |-> SinNan(r.ShippingName),
      ShippingZip |-> SinNan(r.ShippingZip), Province |-> SinNan(r.Province),
      Phone |-> SinNan(r.Phone), CreatedAt |-> SinNan(r.CreatedAt),
      Status |-> SinNan(Str(r.Status)) ]

AndreaniRow(r) ==
    [ idx |-> r.idx, Name |-> SinN(SinNan(r.Name)),
      ShippingName |-> SinN(SinNan(r.ShippingName)),
      ShippingCompany |-> SinN(SinNan(r.ShippingCompany)),
      ShippingZip |-> SinN(SinNan(r.ShippingZip)),
      Province |-> SinN(SinNan(r.Province)),
      Notes |-> SinN(SinNan(r.Notes)), Phone |-> SinN(SinNan(r.Phone)),
      Status |-> SinN(SinNan(Str(r.Status))),
      Peso |-> r.Peso, Alto |-> r.Alto, Ancho |-> r.Ancho,
      Profun |-> r.Profun, ValDecl |-> r.ValDecl, NC |-> r.NC,
      CodNum |-> r.CodNum ]

\* pd.to_datetime of a text 'dd/mm/YYYY' of the generic output, without
\* dayfirst: the first number is the month when it can be one.
MonthFirst(s) ==
    LET a == ToInt(SubSeq(s, 1, 2))
        b == ToInt(SubSeq(s, 4, 5))
        y == ToInt(SubSeq(s, 7, 10))
    IN IF a <= 12 THEN [y |-> y, m |-> a, d |-> b] ELSE [y |-> y, m |-> b, d |-> a]

\* The date loop of cargar_excel over the stringified generic output: a
\* missing date is the text "nan", which gives no date and is skipped.
FechaDeSubida(t) ==
    LET ok == {i \in 1..Len(t) : t[i].CreatedAt # NaN}
    IN IF ok = {} THEN strftime(NowDate)
       ELSE strftime(MonthFirst(t[CHOOSE i \in ok : \A j \in ok : i <= j].CreatedAt.s))

\* The remote calls either go through or raise.
CargarExcel ==
    /\ pc = "upload"
    /\ \/ /\ upload' = [sent |-> TRUE, fecha |-> FechaDeSubida(gen),
                        hoja1 |-> [i \in 1..Len(gen) |-> Hoja1Row(gen[i])],
                        andreani |-> [i \in 1..Len(car) |-> AndreaniRow(car[i])]]
          /\ Goto("done")
       \/ /\ Raise("APIError")
          /\ UNCHANGED upload
    /\ UNCHANGED <<authVars, cols, excel, regen, fecha, fecha2, missing, src, orig, gen, genPre, car, carPre, stats>>

----------------------------------------------------------------------------

Next ==
    \/ CargarCSV
    \/ GenCopy
    \/ GenNormalize
    \/ GenPass1
    \/ GenPass2
    \/ GenPass3
    \/ GenPass4
    \/ GenGroup
    \/ GenPhone
    \/ GenStats
    \/ GenRerun
    \/ CarCopy
    \/ CarNormalize
    \/ CarPass1
    \/ CarPass2
    \/ CarPass3
    \/ CarPass4
    \/ CarConstants
    \/ CarGroup
    \/ CarPhone
    \/ ExcelWrite
    \/ CargarExcel

Spec == Init /\ [][Next]_vars

----------------------------------------------------------------------------
\* Authentication: auth_manager.AuthManager, Main and
\* App.cambiar_cuenta_google

Cuentas == {"a", "b"}

\* What token.pickle can hold when the application starts.
InitialTokens ==
    {NoToken} \cup
    { Token(c, 0, e, r) : c \in Cuentas, e \in {"valid", "expired"}, r \in BOOLEAN }

\* AuthManager.obtener_credenciales(forzar_nuevo_login) with file as the
\* stored credentials and n as the number of the next access token: the set
\* of its outcomes, each with the branch taken, the credentials returned (or
\* ok = FALSE when it raised) and the file it leaves.
obtener_credenciales(forzar, file, n) ==
    LET credenciales == IF ~forzar /\ file # NoToken THEN file ELSE NoToken
    IN IF credenciales # NoToken /\ credenciales.estado = "valid" /\ ~forzar
       THEN {[ok |-> TRUE, rama |-> "reuse", creds |-> credenciales, file |-> file]}
       ELSE IF /\ credenciales # NoToken
               /\ credenciales.estado = "expired"
               /\ credenciales.refresh
               /\ ~forzar
            THEN { [ok |-> TRUE, rama |-> "refresh",
                    creds |-> [credenciales EXCEPT !.n = n, !.estado = "valid"],
                    file |-> file],
                   [ok |-> FALSE, rama |-> "refresh", creds |-> NoToken,
                    file |-> file] }
            ELSE { [ok |-> TRUE, rama |-> "login",
                    creds |-> Token(c, n, "valid", TRUE),
                    file |-> Token(c, n, "valid", TRUE)] : c \in Cuentas }
                 \cup {[ok |-> FALSE, rama |-> "login", creds |-> NoToken,
                        file |-> file]}

\* Main: the initial crear_cliente_gspread; a failure is shown and the main
\* loop starts all the same.
Conectar ==
    /\ apc = "start"
    /\ emitidos < MaxTokens
    /\ \E o \in obtener_credenciales(FALSE, tokenFile, emitidos + 1) :
          /\ tokenFile' = o.file
          /\ ultima' = [ok |-> o.ok, rama |-> o.rama, creds |-> o.creds]
          /\ gc' = IF o.ok THEN o.creds ELSE gc
          /\ aerr' = IF o.ok THEN "none" ELSE "conexion"
          /\ emitidos' = IF o.ok /\ o.rama # "reuse" THEN emitidos + 1 ELSE emitidos
    /\ apc' = "idle"
    /\ progress' = 0
    /\ UNCHANGED pipeVars

\* App.cambiar_cuenta_google after the user has confirmed: the stored file
\* is removed, the forced login runs, and on success the client is created
\* again from the stored credentials; an exception is shown by the handler.
CambiarCuenta ==
    /\ apc = "idle"
    /\ emitidos < MaxTokens
    /\ \E o \in obtener_credenciales(TRUE, NoToken, emitidos + 1) :
          IF o.ok
          THEN \E o2 \in obtener_credenciales(FALSE, o.file, emitidos + 2) :
                  /\ tokenFile' = o2.file
                  /\ ultima' = [ok |-> o2.ok, rama |-> o2.rama, creds |-> o2.creds]
                  /\ gc' = o2.creds
                  /\ aerr' = "none"
                  /\ emitidos' = emitidos + 1
                  /\ progress' = 100
          ELSE /\ tokenFile' = o.file
               /\ ultima' = [ok |-> FALSE, rama |-> o.rama, creds |-> NoToken]
               /\ aerr' = "cambiar_cuenta"
               /\ progress' = 0
               /\ UNCHANGED <<gc, emitidos>>
    /\ UNCHANGED <<apc, pipeVars>>

\* Time passes: the stored access token expires.
Expira ==
    /\ apc = "idle"
    /\ tokenFile # NoToken
    /\ tokenFile.estado = "valid"
    /\ tokenFile' = [tokenFile EXCEPT !.estado = "expired"]
    /\ ultima' = NoCall
    /\ UNCHANGED <<gc, apc, aerr, emitidos, progress, pipeVars>>

\* The application is closed and started again.
Reiniciar ==
    /\ apc = "idle"
    /\ apc' = "start"
    /\ gc' = NoToken
    /\ ultima' = NoCall
    /\ aerr' = "none"
    /\ progress' = 0
    /\ UNCHANGED <<tokenFile, emitidos, pipeVars>>

AuthInit ==
    /\ pc = "load"
    /\ err = "none"
    /\ failedAt = ""
    /\ missing = {}
    /\ src = <<>>
    /\ orig = <<>>
    /\ gen = <<>>
    /\ genPre = <<>>
    /\ car = <<>>
    /\ carPre = <<>>
    /\ stats = NoStats
    /\ fecha = ""
    /\ fecha2 = ""
    /\ excel = NoExcel
    /\ upload = NoUpload
    /\ regen = <<>>
    /\ cols = <<>>
    /\ progress = 5
    /\ exito = FALSE
    /\ tokenFile \in InitialTokens
    /\ gc = NoToken
    /\ ultima = NoCall
    /\ apc = "start"
    /\ aerr = "none"
    /\ emitidos = 0

AuthNext ==
    \/ Conectar
    \/ CambiarCuenta
    \/ Expira
    \/ Reiniciar

AuthSpec == AuthInit /\ [][AuthNext]_vars

----------------------------------------------------------------------------
\* Vocabulary of the properties

Steps ==
    << "load", "gen_copy", "gen_norm", "gen_p1", "gen_p2", "gen_p3", "gen_p4",
       "gen_group", "gen_phone", "gen_stats", "car_copy", "car_norm", "car_p1",
       "car_p2", "car_p3", "car_p4", "car_const", "car_group", "car_phone",
       "processed", "upload", "done" >>

StepNo(step) == CHOOSE i \in 1..Len(Steps) : Steps[i] = step

\* The step the pipeline is at, or was at when it raised.
\* A second call of the generic projection leaves the pipeline where the
\* first one returned.
CurrentStep ==
    IF pc = "error" THEN failedAt
    ELSE IF pc = "rerun" THEN "car_copy"
    ELSE pc

\* Every step before `step` has completed.
Reached(step) == StepNo(CurrentStep) >= StepNo(step)

\* The line of the loaded table that an output row was copied from.
OrigRow(r) == orig[CHOOSE i \in 1..Len(orig) : orig[i].idx = r.idx]

\* The first line, in the row order of table t, of the order named name.
FirstOfOrder(t, name) ==
    t[CHOOSE i \in 1..Len(t) :
        /\ t[i].Name = name
        /\ \A j \in 1..(i - 1) : t[j].Name # name]

\* Table t is in the order (order_id ascending, shipping_name descending).
SortedByOrder(t) ==
    \A i, j \in 1..Len(t) : i < j => ~Before(t[j], t[i])

FinalStatusOf(fin) ==
    CASE fin = EXPIRED -> "VENCIDO"
      [] fin = REFUNDED -> "REEMBOLSADO"
      [] fin = PENDING -> "FALTA PAGAR"
      [] OTHER -> ""

\* The note is a text that is not blank after trimming.
NonBlankNote(note) == note.k = "str" /\ Strip(note.s) # ""

----------------------------------------------------------------------------
\* C1: after consolidation, in the generic and in the carrier projection, all
\* lines of one order carry one status, the status that the first line of
\* the order (first in the row order of the table at the moment of grouping,
\* which is order_id ascending then shipping_name descending) held
\* immediately before consolidation.
ConsolidatedFrom(post, pre) ==
    /\ SortedByOrder(pre)
    /\ \A j \in 1..Len(pre) :
          pre[j].Name # NaN => \E i \in 1..Len(post) : post[i].idx = pre[j].idx
    /\ \A i \in 1..Len(post) :
          post[i].Status = FirstOfOrder(pre, post[i].Name).Status

C1_OneStatusPerOrder ==
    /\ Reached("gen_stats") => ConsolidatedFrom(gen, genPre)
    /\ Reached("processed") => ConsolidatedFrom(car, carPre)

\* An order of two lines whose statuses differed before consolidation, in
\* both projections.
C1_Witness ==
    /\ pc = "processed"
    /\ \E i, j \in 1..Len(genPre) :
          /\ i < j
          /\ genPre[i].Name = genPre[j].Name
          /\ genPre[i].Name # NaN
          /\ genPre[i].Status # genPre[j].Status
          /\ carPre[i].Status # carPre[j].Status

----------------------------------------------------------------------------
\* C2: the status the four passes leave on a line (before consolidation) is
\* the result of the last pass whose condition holds, and a pass whose
\* condition does not hold leaves the status unchanged.  For a paid line, in
\* priority order: REVISAR NOTAS EN SHOPIFY (notes non-blank), else TIERRA
\* DEL FUEGO, else CABA PRIORITARIO (postal code and method), else CABA
\* (postal code), else PRIORITARIO (method), else REVISAR DNI (the id check
\* of pass 1 fails on the id field as pass 1 reads it), else ''.
IdCheckFails(id) == ~StartsWith(id.s, "DNI ") /\ ~IsNumeric(id.s)

PriorityStatus(row) ==
    IF row.FinancialStatus = PAID
    THEN CASE NonBlankNote(row.Notes) -> "REVISAR NOTAS EN SHOPIFY"
           [] OTHER ->
         CASE row.Province = TDF -> "TIERRA DEL FUEGO"
           [] OTHER ->
         CASE ZipIsCaba(row.ShippingZip) /\ row.ShippingMethod = PRIORITY
                -> "CABA PRIORITARIO"
           [] OTHER ->
         CASE ZipIsCaba(row.ShippingZip) -> "CABA"
           [] OTHER ->
         CASE row.ShippingMethod = PRIORITY -> "PRIORITARIO"
           [] OTHER ->
         CASE IdCheckFails(row.ShippingCompany) -> "REVISAR DNI"
           [] OTHER -> ""
    ELSE FinalStatusOf(row.FinancialStatus)

----------------------------------------------------------------------------
\* C3 (as stated): every line whose financial_status is expired, refunded or
\* pending has the final status VENCIDO, REEMBOLSADO or FALTA PAGAR
\* respectively, whatever its notes, postal code and shipping method.
C3_FinalStatusOfUnpaidLine ==
    Reached("gen_stats") =>
        \A i \in 1..Len(gen) :
            OrigRow(gen[i]).FinancialStatus \in {EXPIRED, REFUNDED, PENDING}
                => gen[i].Status = FinalStatusOf(OrigRow(gen[i]).FinancialStatus)

\* C3 (amended): every line whose financial_status is expired, refunded or
\* pending has the status VENCIDO, REEMBOLSADO or FALTA PAGAR after the four
\* passes, whatever its notes, postal code and shipping method; after
\* consolidation that is the final status of every line of an order whose
\* first line has that financial_status.
UnpaidAfterPasses(out) ==
    \A i \in 1..Len(out) :
        src[i].FinancialStatus \in {EXPIRED, REFUNDED, PENDING}
            => out[i].Status = FinalStatusOf(src[i].FinancialStatus)

UnpaidAfterGroup(post, pre) ==
    \A i \in 1..Len(post) :
        LET first == OrigRow(FirstOfOrder(pre, post[i].Name))
        IN first.FinancialStatus \in {EXPIRED, REFUNDED, PENDING}
              => post[i].Status = FinalStatusOf(first.FinancialStatus)

C3_UnpaidFirstLineDecides ==
    /\ pc = "gen_group" => UnpaidAfterPasses(gen)
    /\ pc = "car_const" => UnpaidAfterPasses(car)
    /\ Reached("gen_stats") => UnpaidAfterGroup(gen, genPre)
    /\ Reached("processed") => UnpaidAfterGroup(car, carPre)

\* An expired line with notes, a CABA postal code and the priority method
\* ends as VENCIDO.
C3_Witness ==
    /\ pc = "processed"
    /\ \E i \in 1..Len(gen) :
          LET row == OrigRow(gen[i])
          IN /\ row.FinancialStatus = EXPIRED
             /\ NonBlankNote(row.Notes)
             /\ ZipIsCaba(row.ShippingZip)
             /\ row.ShippingMethod = PRIORITY
             /\ gen[i].Status = "VENCIDO"

----------------------------------------------------------------------------
\* C4: a paid line whose notes are non-null and non-blank after trimming
\* gets the status REVISAR NOTAS EN SHOPIFY from the classifier, also when
\* its postal code matches CABA or its shipping method is the priority one.
NotesWin(out) ==
    \A i \in 1..Len(out) :
        src[i].FinancialStatus = PAID /\ NonBlankNote(src[i].Notes)
            => out[i].Status = "REVISAR NOTAS EN SHOPIFY"

C4_NotesSupersede ==
    /\ pc = "gen_group" => NotesWin(gen)
    /\ pc = "car_const" => NotesWin(car)

C4_Witness ==
    /\ pc = "gen_group"
    /\ \E i \in 1..Len(gen) :
          /\ src[i].FinancialStatus = PAID
          /\ NonBlankNote(src[i].Notes)
          /\ ZipIsCaba(src[i].ShippingZip)
          /\ src[i].ShippingMethod = PRIORITY
          /\ src[i].Province = TDF
          /\ gen[i].Status = "REVISAR NOTAS EN SHOPIFY"

----------------------------------------------------------------------------
\* C5: a paid line whose id field is "DNI 12345678", or any text starting
\* with "DNI ", is never given the status REVISAR DNI by the classifier.
HasDniPrefix(id) == id.k = "str" /\ StartsWith(id.s, "DNI ")

C5_DniPrefixNeverRevisar ==
    Reached("gen_p2") =>
        \A i \in 1..Len(gen) :
            LET row == OrigRow(gen[i])
            IN row.FinancialStatus = PAID /\ HasDniPrefix(row.ShippingCompany)
                  => gen[i].Status # "REVISAR DNI"

----------------------------------------------------------------------------
\* C6: for a paid line that no rule of passes 2-4 matches, the status is
\* REVISAR DNI exactly when the id field does not start with "DNI " and,
\* after removing '.' and spaces, is not all digits (a missing id is read as
\* the text "nan").
IdIsInvalid(id) ==
    /\ ~HasDniPrefix(id)
    /\ ~IsNumeric(RemoveChar(RemoveChar(PyStr(id), "."), " "))

NoLaterRule(row) ==
    /\ ~ZipIsCaba(row.ShippingZip)
    /\ row.ShippingMethod # PRIORITY
    /\ ~NonBlankNote(row.Notes)
    /\ row.Province # TDF

C6_RevisarDniExactly ==
    pc = "gen_group" =>
        \A i \in 1..Len(gen) :
            orig[i].FinancialStatus = PAID /\ NoLaterRule(orig[i])
                => /\ IdIsInvalid(orig[i].ShippingCompany)
                        => gen[i].Status = "REVISAR DNI"
                   /\ ~IdIsInvalid(orig[i].ShippingCompany)
                        => gen[i].Status = ""

----------------------------------------------------------------------------
\* C7: when every required column is present, classification and
\* consolidation complete without raising, whatever the values of the
\* fields of the lines.
C7_NeverRaises ==
    missing = {} => ~(pc = "error" /\ StepNo(failedAt) < StepNo("processed"))

----------------------------------------------------------------------------
\* C8: if a required column is absent, processing fails for every table
\* content, and it fails before any status has been written to any line and
\* before the input table has been modified.
C8_MissingColumnFailsFirst ==
    missing # {} =>
        /\ pc # "processed"
        /\ pc = "error" =>
              /\ \A i \in 1..Len(gen) : gen[i].Status = ""
              /\ src = orig \/ orig = <<>>

----------------------------------------------------------------------------
\* C9: a paid line with postal code "C1425" (no notes, not Tierra del Fuego)
\* and a non-priority shipping method gets the status CABA; the same line
\* with the method "Envío Prioritario + Garantía extendida" gets CABA
\* PRIORITARIO.
IsC1425Line(row) ==
    /\ row.FinancialStatus = PAID
    /\ row.ShippingZip = Str("C1425")
    /\ ~NonBlankNote(row.Notes)
    /\ row.Province # TDF

C9_C1425 ==
    pc = "gen_group" =>
        \A i \in 1..Len(gen) :
            IsC1425Line(orig[i])
                => gen[i].Status =
                     IF orig[i].ShippingMethod = PRIORITY
                     THEN "CABA PRIORITARIO" ELSE "CABA"

C9_Witness ==
    /\ pc = "gen_group"
    /\ \E i \in 1..Len(gen) :
          /\ IsC1425Line(orig[i])
          /\ orig[i].ShippingMethod = PRIORITY
          /\ gen[i].Status = "CABA PRIORITARIO"

----------------------------------------------------------------------------
\* C10: each reported category count is the number of distinct order ids
\* whose consolidated status is that category, an order counting once
\* however many lines it has; two paid lines of order "#1001" with postal
\* code "C1420" and no notes give CABA = 1 and total = 1.
OrderIds == {orig[i].Name : i \in 1..Len(orig)} \ {NaN}

OrdersIn(category) ==
    Cardinality({o \in OrderIds : FirstOfOrder(genPre, o).Status = category})

IsExampleTable ==
    /\ Len(orig) = 2
    /\ \A i \in 1..2 :
          /\ orig[i].Name = Str("#1001")
          /\ orig[i].FinancialStatus = PAID
          /\ orig[i].ShippingZip = Str("C1420")
          /\ orig[i].Notes = NaN

C10_CountsAreOrders ==
    stats.reported =>
        /\ stats.caba = OrdersIn("CABA")
        /\ stats.falta_pagar = OrdersIn("FALTA PAGAR")
        /\ stats.vencido = OrdersIn("VENCIDO")
        /\ stats.reembolsado = OrdersIn("REEMBOLSADO")
        /\ stats.notas = OrdersIn("REVISAR NOTAS EN SHOPIFY")
        /\ stats.revisar_dni = OrdersIn("REVISAR DNI")
        /\ stats.sin_clasificar = OrdersIn("")
        /\ IsExampleTable => stats.caba = 1 /\ stats.total = 1

C10_Witness ==
    /\ stats.reported
    /\ IsExampleTable
    /\ stats.caba = 1

----------------------------------------------------------------------------
\* C11: the total reported with the category counts equals the number of
\* distinct order ids of the batch, also when the batch holds orders with
\* status PRIORITARIO, CABA PRIORITARIO or TIERRA DEL FUEGO.
C11_TotalIsOrders == stats.reported => stats.total = Cardinality(OrderIds)

----------------------------------------------------------------------------
\* C12: every row of the carrier output carries Peso "100", Alto "10",
\* Ancho "15", Profun "10", Val decl "4500", NC "." and CodNum "54", for
\* every input table and every line of it, also after consolidation.
HasCarrierConstants(r) ==
    /\ r.Peso = "100"
    /\ r.Alto = "10"
    /\ r.Ancho = "15"
    /\ r.Profun = "10"
    /\ r.ValDecl = "4500"
    /\ r.NC = "."
    /\ r.CodNum = "54"

C12_CarrierConstants ==
    Reached("car_group") => \A i \in 1..Len(car) : HasCarrierConstants(car[i])

\* A consolidated carrier table with an order of two lines.
C12_Witness ==
    /\ pc = "processed"
    /\ \E i, j \in 1..Len(car) :
          /\ i < j
          /\ car[i].Name = car[j].Name
          /\ HasCarrierConstants(car[i])
          /\ HasCarrierConstants(car[j])

----------------------------------------------------------------------------
\* C13: running the classification a second time on a table that has been
\* classified once and not otherwise modified gives every line the status
\* the first run gave it.
C13_RerunSameStatus ==
    pc = "rerun" =>
        /\ Len(regen) = Len(gen)
        /\ \A i \in 1..Len(gen) :
              /\ regen[i].idx = gen[i].idx
              /\ regen[i].Status = gen[i].Status

\* A second run on a table whose id text the first run rewrote, with a
\* status that depends on the id.
C13_Witness ==
    /\ pc = "rerun"
    /\ \E i \in 1..Len(regen) :
          /\ OrigRow(regen[i]).ShippingCompany = Str("12.345.678")
          /\ OrigRow(regen[i]).FinancialStatus = PAID
          /\ src[i].ShippingCompany = Str("12345678")
          /\ gen[i].Status = ""
          /\ regen[i].Status = ""

----------------------------------------------------------------------------
\* C14: the status of each order in the carrier projection equals the status
\* of the same order in the generic projection, both computed from the same
\* source table, the generic one first.
C14_SameStatusInBoth ==
    Reached("processed") =>
        /\ Len(car) = Len(gen)
        /\ \A i \in 1..Len(gen), j \in 1..Len(car) :
              gen[i].Name = car[j].Name => gen[i].Status = car[j].Status

\* Both projections give CABA to an order whose id was written with spaces.
C14_Witness ==
    /\ pc = "processed"
    /\ \E i \in 1..Len(gen) :
          /\ OrigRow(gen[i]).ShippingCompany = Str("12 345 678")
          /\ gen[i].Status = "CABA"
          /\ car[i].Status = "CABA"

----------------------------------------------------------------------------
\* C15: classification and consolidation leave their input as it was: after
\* either projection has run, every field of every line of the input table
\* holds the value it held before the run.
C15_InputUntouched == Reached("gen_stats") => src = orig

----------------------------------------------------------------------------
\* C16: consolidation changes no field of a line other than status: every
\* line that consolidation returns has, in every field but status, the value
\* it had before consolidation.
SameButStatus(a, b) == [a EXCEPT !.Status = ""] = [b EXCEPT !.Status = ""]

OnlyStatusChanged(post, pre) ==
    \A i \in 1..Len(post) :
        \E j \in 1..Len(pre) :
            /\ pre[j].idx = post[i].idx
            /\ SameButStatus(post[i], pre[j])

C16_OnlyStatusChanges ==
    /\ pc = "gen_phone" => OnlyStatusChanged(gen, genPre)
    /\ pc = "car_phone" => OnlyStatusChanged(car, carPre)

\* Consolidation has overwritten the status of a line whose shipping name
\* differs from the one of the first line of its order.
C16_Witness ==
    /\ pc = "car_phone"
    /\ \E i \in 1..Len(car), j \in 1..Len(carPre) :
          /\ carPre[j].idx = car[i].idx
          /\ carPre[j].Status # car[i].Status
          /\ car[i].ShippingName # FirstOfOrder(carPre, car[i].Name).ShippingName

----------------------------------------------------------------------------
\* C17 (as stated): every line whose financial_status is none of paid,
\* expired, refunded, pending, a blank or missing one included, ends with
\* status ''.
IsOtherStatus(fin) == fin \notin {PAID, EXPIRED, REFUNDED, PENDING}

C17_OtherEndsUnclassified ==
    Reached("gen_stats") =>
        \A i \in 1..Len(gen) :
            IsOtherStatus(OrigRow(gen[i]).FinancialStatus) => gen[i].Status = ""

\* C17 (amended): every line whose financial_status is none of paid,
\* expired, refunded, pending, a blank or missing one included, has status
\* '' after the four passes; after consolidation '' is the final status of
\* every line of an order whose first line has such a financial_status.
OtherAfterPasses(out) ==
    \A i \in 1..Len(out) :
        IsOtherStatus(src[i].FinancialStatus) => out[i].Status = ""

OtherAfterGroup(post, pre) ==
    \A i \in 1..Len(post) :
        IsOtherStatus(OrigRow(FirstOfOrder(pre, post[i].Name)).FinancialStatus)
            => post[i].Status = ""

C17_OtherFirstLineDecides ==
    /\ pc = "gen_group" => OtherAfterPasses(gen)
    /\ pc = "car_const" => OtherAfterPasses(car)
    /\ Reached("gen_phone") => OtherAfterGroup(gen, genPre)
    /\ Reached("car_phone") => OtherAfterGroup(car, carPre)

\* A line without financial status, with notes, a CABA postal code and the
\* priority method, ends unclassified.
C17_Witness ==
    /\ pc = "processed"
    /\ \E i \in 1..Len(gen) :
          LET row == OrigRow(gen[i])
          IN /\ row.FinancialStatus = NaN
             /\ NonBlankNote(row.Notes)
             /\ ZipIsCaba(row.ShippingZip)
             /\ row.ShippingMethod = PRIORITY
             /\ gen[i].Status = ""
             /\ car[i].Status = ""

----------------------------------------------------------------------------
\* C18: in both projections every text "nan" that stands for a missing value
\* is replaced by the empty text before the table is handed to a writer:
\* neither the local workbook writer nor the remote upload receives a cell
\* equal to "nan".
CarCells(r) ==
    { r.Name, r.ShippingName, r.ShippingZip, r.Province, r.Phone,
      r.ShippingCompany, r.Notes }

GenCells(r) ==
    {r.Name, r.ShippingName, r.ShippingZip, r.Province, r.Phone, r.CreatedAt}

C18_NoNanHanded ==
    /\ excel.handed =>
          /\ \A i \in 1..Len(excel.argentina) :
                Str("nan") \notin GenCells(excel.argentina[i])
          /\ \A i \in 1..Len(excel.andreani) :
                Str("nan") \notin CarCells(excel.andreani[i])
    /\ upload.sent =>
          /\ \A i \in 1..Len(upload.hoja1) :
                "nan" \notin GenCells(upload.hoja1[i])
          /\ \A i \in 1..Len(upload.andreani) :
                "nan" \notin CarCells(upload.andreani[i])

----------------------------------------------------------------------------
\* C19: the phone clean-up on the final table removes only a trailing ".0":
\* the output is the input text with one trailing ".0" removed if there is
\* one, and every other character of the phone text is unchanged.
WithoutTrailingArtifact(s) ==
    IF Len(s) >= 2 /\ SubSeq(s, Len(s) - 1, Len(s)) = ".0"
    THEN SubSeq(s, 1, Len(s) - 2)
    ELSE s

TrailingOnly(post, pre) ==
    \A i \in 1..Len(post) :
        \E j \in 1..Len(pre) :
            /\ pre[j].idx = post[i].idx
            /\ post[i].Phone = Str(WithoutTrailingArtifact(PyStr(pre[j].Phone)))

C19_OnlyTrailingRemoved ==
    /\ pc = "gen_stats" => TrailingOnly(gen, genPre)
    /\ pc = "processed" => TrailingOnly(car, carPre)

----------------------------------------------------------------------------
\* C20: the date returned with a projection is the date of the first line,
\* in the row order of the table, whose created_at is present and parses;
\* lines whose created_at is missing or does not parse are skipped without
\* raising, and when no line has a date that parses the current time is
\* used.
DayMonthYear(s) ==
    SubSeq(s, 9, 10) \o "-" \o SubSeq(s, 6, 7) \o "-" \o SubSeq(s, 1, 4)

HasDate(i) == IsDateText(orig[i].CreatedAt)

IsRepresentativeDate(f) ==
    IF \E i \in 1..Len(orig) : HasDate(i)
    THEN \E i \in 1..Len(orig) :
            /\ HasDate(i)
            /\ \A j \in 1..(i - 1) : ~HasDate(j)
            /\ f = DayMonthYear(orig[i].CreatedAt.s)
    ELSE f = "04-11-2026"

C20_FirstParseableDate ==
    /\ Reached("gen_norm") => IsRepresentativeDate(fecha)
    /\ Reached("car_norm") => IsRepresentativeDate(fecha2)
    /\ pc = "error" /\ failedAt = "gen_copy" => GenericColumns \cap missing # {}
    /\ pc = "error" /\ failedAt = "car_copy" => CarrierColumns \cap missing # {}

\* The first line has a text that is no date, the second one a date, and
\* both projections return the date of the second line.
C20_Witness ==
    /\ pc = "processed"
    /\ Len(orig) = 2
    /\ orig[1].CreatedAt = Str("sin fecha")
    /\ orig[2].CreatedAt = Str("2023-12-25")
    /\ fecha = "25-12-2023"
    /\ fecha2 = "25-12-2023"

----------------------------------------------------------------------------
\* C21: within a classification pass the rows may be processed in any order
\* with the same result, the status a pass gives a line depending on that
\* line's own fields only and not on another line or on the position of the
\* line; the four passes themselves must run in the documented order.
Perms(n) == {f \in [1..n -> 1..n] : \A i, j \in 1..n : f[i] = f[j] => i = j}

Permute(t, f) == [i \in 1..Len(t) |-> t[f[i]]]

IsCabaPriorityLine(row) ==
    /\ row.FinancialStatus = PAID
    /\ ZipIsCaba(row.ShippingZip)
    /\ row.ShippingMethod = PRIORITY
    /\ ~NonBlankNote(row.Notes)
    /\ row.Province # TDF

\* Passes 2 and 3 exchanged, on one line.
Pass3Before2(row) ==
    PassRow(4, row, PassRow(2, row, PassRow(3, row, PassRow(1, row, ""))))

C21_RowOrderFree ==
    pc = "gen_group" =>
        /\ \A f \in Perms(Len(src)) :
              LET out == [i \in 1..Len(src) |-> GenericRow(src[i])]
                  res == Classify(Permute(src, f), Permute(out, f), missing)
              IN \A i \in 1..Len(src) : res[i].Status = gen[f[i]].Status
        /\ \A i \in 1..Len(src) :
              IsCabaPriorityLine(src[i])
                  => /\ gen[i].Status = "CABA PRIORITARIO"
                     /\ Pass3Before2(src[i]) = "CABA"

\* A table of two lines that the passes gave different statuses.
C21_Witness ==
    /\ pc = "gen_group"
    /\ Len(src) = 2
    /\ gen[1].Status = "CABA"
    /\ gen[2].Status = "FALTA PAGAR"

----------------------------------------------------------------------------
\* C22: in the generic output the inserted columns Status, NC2, NC3 and NC4
\* stand at the positions 9 to 12 of 16 columns, and the Status column comes
\* after the phone column, as the position comment of the code says.
Position(cs, name) == CHOOSE i \in 1..Len(cs) : cs[i] = name

C22_StatusAfterPhone ==
    Reached("gen_norm") =>
        /\ Len(cols) = 16
        /\ Position(cols, "Status") = 9 + 1
        /\ Position(cols, "NC2") = 10 + 1
        /\ Position(cols, "NC3") = 11 + 1
        /\ Position(cols, "NC4") = 12 + 1
        /\ Position(cols, "Status") > Position(cols, "Shipping Phone")

----------------------------------------------------------------------------
\* C23: the load pipeline handles an error in every stage: when a stage
\* fails, no later stage is executed, the progress ends at 0 with the error
\* state and the success confirmation is not shown; the confirmation and
\* progress 100 are reached only after all stages completed.
C23_EveryStageFailureHandled ==
    /\ pc = "error" =>
          /\ progress = 0
          /\ ~exito
          /\ ~Reached("car_copy") => car = <<>>
          /\ ~Reached("processed") => ~excel.handed
          /\ ~upload.sent
    /\ excel.handed /\ ~excel.written => pc # "done" /\ ~upload.sent /\ ~exito
    /\ exito => pc = "done" /\ progress = 100 /\ excel.written /\ upload.sent

----------------------------------------------------------------------------
\* C24: every line of the input table appears exactly once in the output of
\* each projection: consolidation drops no line and duplicates none, a line
\* without order id included, so the output has as many rows as the input.
OneRowPerLine(t) ==
    /\ Len(t) = Len(orig)
    /\ \A j \in 1..Len(orig) :
          Cardinality({i \in 1..Len(t) : t[i].idx = orig[j].idx}) = 1

C24_EveryLineOnce ==
    /\ Reached("gen_phone") => OneRowPerLine(gen)
    /\ Reached("car_phone") => OneRowPerLine(car)

----------------------------------------------------------------------------
\* C25: the output of the carrier projection is the same whether or not the
\* generic projection ran on the table before it; the Shipping Company
\* column of the carrier output holds the raw id text of each input line.
C25_CarrierIndependent ==
    pc = "processed" =>
        /\ car = CarrierAlone(orig, missing)
        /\ \A i \in 1..Len(car) :
              car[i].ShippingCompany = OrigRow(car[i]).ShippingCompany

----------------------------------------------------------------------------
\* C26: in the statistics panel the displayed TOTAL is the sum of the
\* category counts displayed in the same panel, for every combination of
\* counts, a non-zero REVISAR DNI count included.
RECURSIVE SumSeq(_)
SumSeq(q) == IF q = <<>> THEN 0 ELSE Head(q) + SumSeq(Tail(q))

C26_TotalIsDisplayedSum == stats.reported => stats.total = SumSeq(stats.panel)

----------------------------------------------------------------------------
\* C27: the pipeline reports success (progress 100, 'Proceso completado')
\* only if the local workbook was written: a failure while writing the
\* workbook prevents the remote upload and the success report.
C27_SuccessOnlyIfWritten ==
    /\ upload.sent => excel.written
    /\ progress = 100 => excel.written

----------------------------------------------------------------------------
\* C28: the date in the name of the remote spreadsheet equals the
\* representative date in the name of the local workbook of the same batch,
\* for every created_at that parses, a date whose day is 12 or less included.
C28_SameDateInBothNames == upload.sent => upload.fecha = excel.fecha

----------------------------------------------------------------------------
\* C29: after any successful return of obtener_credenciales (stored valid
\* credentials reused, expired credentials refreshed, or full login) the
\* stored token file holds exactly the credentials that were returned.
C29_FileHoldsReturned == ultima.ok => tokenFile = ultima.creds

----------------------------------------------------------------------------
\* C30: when an account change fails, the stored credential file is still
\* present with the credentials of the previous account and the client in
\* use is still backed by stored credentials.
C30_FailedChangeKeepsAccount ==
    aerr = "cambiar_cuenta" /\ gc # NoToken =>
        /\ tokenFile # NoToken
        /\ tokenFile.cuenta = gc.cuenta

====
